---- MODULE Spec2Model ----
(***************************************************************************)
(* PicoMidi: the streaming MIDI parser (picomidi/parser/parser.py), the     *)
(* value and message types it builds, and the Roland SysEx message          *)
(* (picomidi/message/sysex/roland.py), as a state machine.                  *)
(*                                                                         *)
(* A Parser owns `buffer` and `running_status`.  The caller's operations   *)
(* are feed(data), drained (list(parser.feed(data))), and reset().  The    *)
(* other variables record the caller's side of the calls: what was fed,    *)
(* what came back, the state the call started from, and the message object *)
(* the caller built and serialized.                                        *)
(***************************************************************************)
EXTENDS Integers, Sequences, FiniteSets, TLC

VARIABLES
    buffer,          \* Parser.buffer: the bytes not yet consumed
    running_status,  \* Parser.running_status: None or a status byte
    stream,          \* every byte fed since construction or the last reset
    yielded,         \* every item yielded since construction or the last reset
    op,              \* the last call: "init", "feed" or "reset"
    data,            \* the argument of the last feed
    out,             \* the items the last feed yielded
    err,             \* the exception the last feed raised, or NoError (reset keeps it)
    prev,            \* buffer and running_status when the last feed began (after a
                     \* reset: the cleared fields)
    given,           \* the arguments of the last constructor call
    message,         \* the object that call built (NoMessage if it raised)
    wire,            \* the bytes the last to_bytes() returned
    text,            \* how the message of the exception a RolandSysExMessage call
                     \* raised begins ("" when none was raised)
    gens             \* the generators feed() returned that the caller iterates
                     \* by hand, in the order of the calls

vars == <<buffer, running_status, stream, yielded, op, data, out, err, prev,
          given, message, wire, text, gens>>

\* the caller's message object and its serialization
built == <<given, message, wire, text>>

(***************************************************************************)
(* Constants of the program.                                               *)
(***************************************************************************)
None == -1                      \* Optional[int] None (never a byte)

NOTE_OFF == 128                 \* 0x80
NOTE_ON == 144                  \* 0x90
POLY_AFTERTOUCH == 160          \* 0xA0
CONTROL_CHANGE == 176           \* 0xB0
PROGRAM_CHANGE == 192           \* 0xC0
CHANNEL_AFTERTOUCH == 208       \* 0xD0
PITCH_BEND == 224               \* 0xE0
SYSTEM_EXCLUSIVE == 240         \* 0xF0
END_OF_EXCLUSIVE == 247         \* 0xF7

LOW_4_BITS == 15                \* 0x0F
LOW_7_BITS == 127               \* 0x7F
HIGH_4_BITS == 240              \* 0xF0

NoError == "NoError"
NotImplementedError == "NotImplementedError"
ValueError == "ValueError"

(***************************************************************************)
(* Bit operations on bytes, as arithmetic.  mask is 2^k - 1 or 0xF0.       *)
(***************************************************************************)
BitAnd(x, mask) ==
    IF mask = HIGH_4_BITS THEN (x \div 16) * 16 ELSE x % (mask + 1)

(***************************************************************************)
(* picomidi/core/status.py                                                 *)
(***************************************************************************)
is_channel_voice(status) == 128 <= status /\ status <= 239

is_system_realtime(status) == 248 <= status /\ status <= 255

get_message_type(status) == BitAnd(status, HIGH_4_BITS)

get_channel(status) ==
    IF is_channel_voice(status) THEN BitAnd(status, LOW_4_BITS) ELSE None

\* a variant that keeps three bits of the channel
make_channel_voice_3_bits(status_base, channel) ==
    status_base + (channel % 8)

\* status_base has a zero low nibble, so status_base | (channel & 0x0F) is a sum.
make_channel_voice(status_base, channel) ==
    status_base + BitAnd(channel, LOW_4_BITS)

(***************************************************************************)
(* picomidi/utils/conversion.py and picomidi/core/types.py                 *)
(***************************************************************************)
combine_7bit_msb_lsb(msb, lsb) ==
    BitAnd(msb, LOW_7_BITS) * 128 + BitAnd(lsb, LOW_7_BITS)

\* returns <<msb, lsb>>
split_14bit_to_7bit(value) ==
    LET v == value % 16384
    IN  <<BitAnd(v \div 128, LOW_7_BITS), BitAnd(v, LOW_7_BITS)>>

\* Note, Velocity, ControlValue, ProgramNumber: __post_init__ accepts 0..127
ValidDataValue(value) == 0 <= value /\ value <= 127

\* PitchBendValue.from_14bit: the signed value (the argument is in 0..16383)
from_14bit(value) == value - 8192

\* the two's complement of utils.conversion.signed_to_unsigned_14bit instead
\* of the offset by the centre
to_14bit_twos_complement(value) == IF value < 0 THEN 16384 + value ELSE value

\* PitchBendValue.to_14bit
to_14bit(value) == value + 8192

(***************************************************************************)
(* Messages (picomidi/message/channel_voice): one record per variant,      *)
(* `fields` holding the variant's values in constructor order.             *)
(***************************************************************************)
NoteOn(channel, note, velocity) ==
    [variant |-> "NoteOn", channel |-> channel, fields |-> <<note, velocity>>]

\* velocity is None or a Velocity; `velocity or Velocity(64)` replaces only
\* None, a Velocity object being truthy whatever its value
NoteOffZeroIsDefault(channel, note, velocity) ==
    [variant |-> "NoteOff", channel |-> channel,
     fields |-> <<note, IF velocity = None \/ velocity = 0 THEN 64 ELSE velocity>>]

NoteOff(channel, note, velocity) ==
    [variant |-> "NoteOff", channel |-> channel,
     fields |-> <<note, IF velocity = None THEN 64 ELSE velocity>>]

ControlChange(channel, controller, value) ==
    [variant |-> "ControlChange", channel |-> channel,
     fields |-> <<controller, value>>]

ProgramChange(channel, program) ==
    [variant |-> "ProgramChange", channel |-> channel, fields |-> <<program>>]

PitchBend(channel, value) ==
    [variant |-> "PitchBend", channel |-> channel, fields |-> <<value>>]

to_list(m) ==
    CASE m.variant = "NoteOn" ->
            <<make_channel_voice(NOTE_ON, m.channel), m.fields[1], m.fields[2]>>
      [] m.variant = "NoteOff" ->
            <<make_channel_voice(NOTE_OFF, m.channel), m.fields[1], m.fields[2]>>
      [] m.variant = "ControlChange" ->
            <<make_channel_voice(CONTROL_CHANGE, m.channel),
              m.fields[1], m.fields[2]>>
      [] m.variant = "ProgramChange" ->
            <<make_channel_voice(PROGRAM_CHANGE, m.channel), m.fields[1]>>
      [] m.variant = "PitchBend" ->
            LET s == split_14bit_to_7bit(to_14bit(m.fields[1]))
            IN  <<make_channel_voice(PITCH_BEND, m.channel), s[2], s[1]>>

(***************************************************************************)
(* Parser._parse_*: each returns [error, message]; message is meaningful   *)
(* only when error = NoError.  buf holds the whole message.                *)
(***************************************************************************)
NoMessage == [variant |-> "none", channel |-> None, fields |-> <<>>]

Raised(e) == [error |-> e, message |-> NoMessage]

Built(m) == [error |-> NoError, message |-> m]

_parse_note_message(buf, msg_type, channel) ==
    IF ~ValidDataValue(buf[2]) \/ ~ValidDataValue(buf[3])
    THEN Raised(ValueError)
    ELSE IF msg_type = NOTE_ON
         THEN Built(NoteOn(channel, buf[2], buf[3]))
         ELSE Built(NoteOff(channel, buf[2], buf[3]))

_parse_control_change(buf, channel) ==
    IF ~ValidDataValue(buf[3]) \/ ~(0 <= buf[2] /\ buf[2] <= 127)
    THEN Raised(ValueError)
    ELSE Built(ControlChange(channel, buf[2], buf[3]))

_parse_program_change(buf, channel) ==
    IF ~ValidDataValue(buf[2])
    THEN Raised(ValueError)
    ELSE Built(ProgramChange(channel, buf[2]))

_parse_pitch_bend(buf, channel) ==
    Built(PitchBend(channel, from_14bit(combine_7bit_msb_lsb(buf[3], buf[2]))))

_parse_channel_aftertouch(buf, channel) == Raised(NotImplementedError)

_parse_system_realtime(status) == Raised(NotImplementedError)

(***************************************************************************)
(* Parser._parse_buffer: one iteration of the while loop on a non-empty    *)
(* buffer.  The outcome is                                                 *)
(*   "yield"  a message was built and yielded, its bytes consumed;         *)
(*   "skip"   bytes were consumed and nothing was yielded;                 *)
(*   "break"  the loop ended waiting for more data;                        *)
(*   "raise"  building the message raised, which ends the generator before *)
(*            the statements after the yield expression run.               *)
(* A yielded item pairs the message with the bytes it was decoded from.    *)
(***************************************************************************)
NoItem == [message |-> NoMessage, bytes |-> <<>>]

\* a variant that consumes one byte too many
ConsumeOneMore(buf, n) == SubSeq(buf, n + 2, Len(buf))

\* self.buffer = self.buffer[n:]
Consume(buf, n) == SubSeq(buf, n + 1, Len(buf))

\* a variant that throws the partial message away instead of keeping it
NeedMoreDataDropsBuffer(buf, rs) ==
    [kind |-> "break", buffer |-> <<>>, running_status |-> rs,
     item |-> [message |-> [variant |-> "none", channel |-> None, fields |-> <<>>],
               bytes |-> <<>>],
     error |-> NoError]

\* a variant that consumes the status byte before it gives up
NeedMoreDataDropsStatus(buf, rs) ==
    [kind |-> "break", buffer |-> Tail(buf), running_status |-> rs,
     item |-> [message |-> [variant |-> "none", channel |-> None, fields |-> <<>>],
               bytes |-> <<>>],
     error |-> NoError]

\* break  # Need more data
NeedMoreData(buf, rs) ==
    [kind |-> "break", buffer |-> buf, running_status |-> rs,
     item |-> NoItem, error |-> NoError]

\* a variant that drops the status byte of the message it could not build
RaiseDropsStatus(buf, rs, e) ==
    [kind |-> "raise", buffer |-> Tail(buf), running_status |-> rs,
     item |-> [message |-> [variant |-> "none", channel |-> None, fields |-> <<>>],
               bytes |-> <<>>],
     error |-> e]

\* the exception leaves _parse_buffer: nothing after the yield expression runs
Raise(buf, rs, e) ==
    [kind |-> "raise", buffer |-> buf, running_status |-> rs,
     item |-> NoItem, error |-> e]

\* a variant that forgets to record the running status
YieldAndConsumeKeepsStatus(buf, rs, parsed, n) ==
    IF parsed.error # NoError
    THEN Raise(buf, rs, parsed.error)
    ELSE [kind |-> "yield", buffer |-> Consume(buf, n), running_status |-> rs,
          item |-> [message |-> parsed.message, bytes |-> SubSeq(buf, 1, n)],
          error |-> NoError]

\* yield <parsed>; self.buffer = self.buffer[n:]; self.running_status = status_byte
YieldAndConsume(buf, rs, parsed, n) ==
    IF parsed.error # NoError
    THEN Raise(buf, rs, parsed.error)
    ELSE [kind |-> "yield", buffer |-> Consume(buf, n), running_status |-> buf[1],
          item |-> [message |-> parsed.message, bytes |-> SubSeq(buf, 1, n)],
          error |-> NoError]

\* self.buffer = self.buffer[n:] with nothing yielded and running_status kept
Skip(buf, rs, n) ==
    [kind |-> "skip", buffer |-> Consume(buf, n), running_status |-> rs,
     item |-> NoItem, error |-> NoError]

\* if Status.is_system_realtime(status_byte): yield ...; self.buffer = self.buffer[1:]
SystemRealtimeStep(buf, rs) ==
    YieldAndConsume(buf, rs, _parse_system_realtime(buf[1]), 1)

\* if Status.is_channel_voice(status_byte): ...
ChannelVoiceStep(buf, rs) ==
    LET status_byte == buf[1]
        msg_type == get_message_type(status_byte)
        channel == get_channel(status_byte)
    IN  IF msg_type \in {NOTE_ON, NOTE_OFF, POLY_AFTERTOUCH}
        THEN IF Len(buf) < 3 THEN NeedMoreData(buf, rs)
             ELSE YieldAndConsume(buf, rs,
                                  _parse_note_message(buf, msg_type, channel), 3)
        ELSE IF msg_type = CONTROL_CHANGE
        THEN IF Len(buf) < 3 THEN NeedMoreData(buf, rs)
             ELSE YieldAndConsume(buf, rs, _parse_control_change(buf, channel), 3)
        ELSE IF msg_type = PROGRAM_CHANGE
        THEN IF Len(buf) < 2 THEN NeedMoreData(buf, rs)
             ELSE YieldAndConsume(buf, rs, _parse_program_change(buf, channel), 2)
        ELSE IF msg_type = CHANNEL_AFTERTOUCH
        THEN IF Len(buf) < 2 THEN NeedMoreData(buf, rs)
             ELSE YieldAndConsume(buf, rs,
                                  _parse_channel_aftertouch(buf, channel), 2)
        ELSE IF msg_type = PITCH_BEND
        THEN IF Len(buf) < 3 THEN NeedMoreData(buf, rs)
             ELSE YieldAndConsume(buf, rs, _parse_pitch_bend(buf, channel), 3)
        ELSE Skip(buf, rs, 1)

\* 0xF7 in self.buffer
Contains(buf, byte) == \E i \in 1..Len(buf) : buf[i] = byte

\* a variant that looks for the last 0xF7 instead of the first
sysex_end_index_last(buf) ==
    CHOOSE i \in 1..Len(buf) :
        buf[i] = END_OF_EXCLUSIVE
        /\ \A j \in (i + 1)..Len(buf) : buf[j] # END_OF_EXCLUSIVE

\* end_index = self.buffer.index(0xF7) + 1: the bytes up to the first 0xF7
sysex_end_index(buf) ==
    CHOOSE i \in 1..Len(buf) :
        buf[i] = END_OF_EXCLUSIVE /\ \A j \in 1..(i - 1) : buf[j] # END_OF_EXCLUSIVE

\* a variant that gives up on a pending frame longer than 3 bytes
SystemExclusiveStepCapped(buf, rs) ==
    IF ~Contains(buf, END_OF_EXCLUSIVE)
    THEN IF Len(buf) > 3 THEN Skip(buf, rs, 1) ELSE NeedMoreData(buf, rs)
    ELSE Skip(buf, rs, sysex_end_index(buf))

\* elif status_byte == Status.SYSTEM_EXCLUSIVE: ...
SystemExclusiveStep(buf, rs) ==
    IF ~Contains(buf, END_OF_EXCLUSIVE)
    THEN NeedMoreData(buf, rs)
    ELSE Skip(buf, rs, sysex_end_index(buf))

\* a variant that applies the running status to a leading data byte
UnknownByteStepRunningStatus(buf, rs) ==
    IF rs # None /\ buf[1] <= 127
    THEN [kind |-> "skip", buffer |-> <<rs>> \o buf, running_status |-> rs,
          item |-> NoItem, error |-> NoError]
    ELSE Skip(buf, rs, 1)

\* a variant that waits for more data at a byte that starts no message
UnknownByteStepWaits(buf, rs) ==
    [kind |-> "break", buffer |-> buf, running_status |-> rs,
     item |-> [message |-> [variant |-> "none", channel |-> None, fields |-> <<>>],
               bytes |-> <<>>],
     error |-> NoError]

\* else: self.buffer = self.buffer[1:]
UnknownByteStep(buf, rs) == Skip(buf, rs, 1)

ParseStep(buf, rs) ==
    LET status_byte == buf[1]
    IN  IF is_system_realtime(status_byte) THEN SystemRealtimeStep(buf, rs)
        ELSE IF is_channel_voice(status_byte) THEN ChannelVoiceStep(buf, rs)
        ELSE IF status_byte = SYSTEM_EXCLUSIVE THEN SystemExclusiveStep(buf, rs)
        ELSE UnknownByteStep(buf, rs)

(***************************************************************************)
(* Parser._parse_buffer, drained: the loop run until it ends.  The result  *)
(* is the parser's fields afterwards, the items yielded in order, and the  *)
(* exception that ended the generator, if one did.                         *)
(***************************************************************************)
RECURSIVE _parse_buffer(_, _, _)
_parse_buffer(buf, rs, items) ==
    IF Len(buf) = 0
    THEN [buffer |-> buf, running_status |-> rs, out |-> items, err |-> NoError]
    ELSE LET s == ParseStep(buf, rs)
         IN  CASE s.kind = "yield" ->
                    _parse_buffer(s.buffer, s.running_status, Append(items, s.item))
               [] s.kind = "skip" ->
                    _parse_buffer(s.buffer, s.running_status, items)
               [] s.kind = "break" ->
                    [buffer |-> s.buffer, running_status |-> s.running_status,
                     out |-> items, err |-> NoError]
               [] s.kind = "raise" ->
                    [buffer |-> s.buffer, running_status |-> s.running_status,
                     out |-> items, err |-> s.error]

\* Parser.feed, drained: self.buffer.extend(data); yield from self._parse_buffer()
feed(buf, rs, bytes) == _parse_buffer(buf \o bytes, rs, <<>>)

\* Parser.__init__
NewParser == [buffer |-> <<>>, running_status |-> None]

\* a variant that clears the buffer only
reset_keeps_status(buf, rs) == [buffer |-> <<>>, running_status |-> rs]

\* Parser.reset: self.buffer.clear(); self.running_status = None
reset(buf, rs) == [buffer |-> <<>>, running_status |-> None]

(***************************************************************************)
(* Parser.feed, iterated by hand.  feed is a generator function: the call  *)
(* returns a generator and runs nothing; the first next() runs             *)
(* self.buffer.extend(data) and the loop up to its first yield; each later *)
(* next() runs the statements after that yield (the slice and the          *)
(* assignment of running_status) and the loop up to the next yield.        *)
(***************************************************************************)
\* the generator feed(d) returns, not yet started
NewGenerator(d) == [state |-> "created", data |-> d, n |-> 0, status |-> None]

\* a generator suspended at `yield`: the slice and the status still to be applied
Suspended(g, n, status_byte) ==
    [state |-> "suspended", data |-> g.data, n |-> n, status |-> status_byte]

\* a generator that returned, raised or was closed
Finished(g) == [state |-> "done", data |-> g.data, n |-> 0, status |-> None]

\* the loop of _parse_buffer from its top to the next yield, break, raise or end
RECURSIVE run_to_yield(_, _)
run_to_yield(buf, rs) ==
    IF Len(buf) = 0
    THEN [kind |-> "return", buffer |-> buf, running_status |-> rs,
          item |-> NoItem, error |-> NoError]
    ELSE LET s == ParseStep(buf, rs)
         IN  CASE s.kind = "yield" ->
                    [kind |-> "yield", buffer |-> buf, running_status |-> rs,
                     item |-> s.item, error |-> NoError]
               [] s.kind = "skip" -> run_to_yield(s.buffer, s.running_status)
               [] s.kind = "break" ->
                    [kind |-> "return", buffer |-> s.buffer,
                     running_status |-> s.running_status,
                     item |-> NoItem, error |-> NoError]
               [] s.kind = "raise" ->
                    [kind |-> "raise", buffer |-> s.buffer,
                     running_status |-> s.running_status,
                     item |-> NoItem, error |-> s.error]

\* self.buffer[n:] of a buffer that may have fewer than n bytes
SliceFrom(buf, n) == IF n >= Len(buf) THEN <<>> ELSE Consume(buf, n)

\* next(g): what runs before the loop is entered again
resume(g, buf, rs) ==
    IF g.state = "created"
    THEN run_to_yield(buf \o g.data, rs)
    ELSE run_to_yield(SliceFrom(buf, g.n), g.status)

(***************************************************************************)
(* The bytes a caller feeds.  Each run draws its bytes from one alphabet:  *)
(* a few data bytes and status bytes that between them reach every branch  *)
(* of the parser.  MaxStream bounds the bytes fed between two resets.      *)
(***************************************************************************)
MaxStream == 5

Alphabets ==
    { {60, 64, 144, 240, 247},      \* 3C 40, Note On ch 0, F0, F7
      {60, 144, 195, 241, 248},     \* 3C, Note On, Program Change ch 3, F1, F8
      {60, 64, 143, 178, 229},      \* Note Off ch 15, Control Change ch 2, Pitch Bend ch 5
      {60, 161, 212, 240, 248} }    \* Poly Aftertouch ch 1, Channel Aftertouch ch 4

\* a Roland frame (F0 41 10 00 00 00 0E 12 18 00 00 10 7F 59 F7) followed by a
\* Note On (90 3C 40)
SysExThenNoteOn ==
    <<240, 65, 16, 0, 0, 0, 14, 18, 24, 0, 0, 16, 127, 89, 247, 144, 60, 64>>

\* a Note On followed by the data bytes of a second one (90 3C 40 3E 40)
NoteOnThenDataBytes == <<144, 60, 64, 62, 64>>

Examples == {SysExThenNoteOn, NoteOnThenDataBytes}

Chunks(alphabet, n) == UNION { [1..k -> alphabet] : k \in 0..n }

\* the alphabets the bytes fed so far are drawn from
Compatible(s) == {a \in Alphabets : \A i \in 1..Len(s) : s[i] \in a}

(***************************************************************************)
(* The state machine.                                                      *)
(***************************************************************************)
Init ==
    /\ buffer = NewParser.buffer
    /\ running_status = NewParser.running_status
    /\ stream = <<>>
    /\ yielded = <<>>
    /\ op = "init"
    /\ data = <<>>
    /\ out = <<>>
    /\ err = NoError
    /\ prev = NewParser
    /\ given = NoMessage
    /\ message = NoMessage
    /\ wire = <<>>
    /\ text = ""
    /\ gens = <<>>

\* list(parser.feed(d)), with the exception caught by the caller if one is raised
FeedCall(d) ==
    LET r == feed(buffer, running_status, d)
    IN  /\ buffer' = r.buffer
        /\ running_status' = r.running_status
        /\ stream' = stream \o d
        /\ yielded' = yielded \o r.out
        /\ op' = "feed"
        /\ data' = d
        /\ out' = r.out
        /\ err' = r.err
        /\ prev' = [buffer |-> buffer, running_status |-> running_status]
        /\ UNCHANGED <<built, gens>>

Feed ==
    \E a \in Compatible(stream) :
        \E d \in Chunks(a, MaxStream - Len(stream)) :
            FeedCall(d)

\* the first feed of a parser delivers one of the examples whole
FeedExample ==
    /\ stream = <<>>
    /\ \E d \in Examples : FeedCall(d)

Reset ==
    LET r == reset(buffer, running_status)
    IN  /\ buffer' = r.buffer
        /\ running_status' = r.running_status
        /\ stream' = <<>>
        /\ yielded' = <<>>
        /\ op' = "reset"
        /\ data' = <<>>
        /\ out' = <<>>
        /\ err' = err
        /\ prev' = r
        /\ UNCHANGED <<built, gens>>

Next == Feed \/ FeedExample \/ Reset

Spec == Init /\ [][Next]_vars

\* a parser that is never reset
NextFeed == Feed \/ FeedExample

SpecFeed == Init /\ [][NextFeed]_vars

(***************************************************************************)
(* A caller that builds one channel voice message, serializes it and feeds *)
(* the bytes to a fresh Parser.                                            *)
(***************************************************************************)
\* the members of the Channel enum
Channels == 0..15

\* the integers offered to Note, Velocity, ControlValue, ProgramNumber and as
\* controller number: every 7-bit value and the first value they refuse
DataValues == 0..128

\* the integers offered to PitchBendValue: its whole range and the first value
\* it refuses on either side
PitchBendValues == -8193..8192

Variants == {"NoteOn", "NoteOff", "ControlChange", "ProgramChange", "PitchBend"}

\* PitchBendValue.__post_init__ accepts -8192..8191
ValidPitchBendValue(value) == -8192 <= value /\ value <= 8191

\* Every value of a field is tried with a few values of the other field, and
\* every pitch bend value on the first and the last channel.
ProbeValues == {0, 64, 127, 128}

ProbePitchBendValues == {-8193, -8192, -1, 0, 1, 8191, 8192}

ProbeChannels == {0, 15}

ValuePairs == (DataValues \X ProbeValues) \cup (ProbeValues \X DataValues)

\* the argument lists of a variant's constructor on a channel; NoteOff's
\* velocity may be left out (None)
Arguments(variant, channel) ==
    CASE variant = "NoteOn" -> ValuePairs
      [] variant = "NoteOff" -> ValuePairs \cup (DataValues \X {None})
      [] variant = "ControlChange" -> ValuePairs \cup {<<7, 100>>}
      [] variant = "ProgramChange" -> {<<program>> : program \in DataValues}
      [] variant = "PitchBend" ->
            {<<value>> : value \in IF channel \in ProbeChannels
                                   THEN PitchBendValues
                                   ELSE ProbePitchBendValues}

\* Variant(Channel, Note(n), Velocity(v)) and the like: the value objects are
\* built first and any of them may raise; then the message's __init__ runs
NewMessage(variant, channel, args) ==
    CASE variant = "NoteOn" ->
            IF ValidDataValue(args[1]) /\ ValidDataValue(args[2])
            THEN Built(NoteOn(channel, args[1], args[2]))
            ELSE Raised(ValueError)
      [] variant = "NoteOff" ->
            IF ValidDataValue(args[1]) /\ (args[2] = None \/ ValidDataValue(args[2]))
            THEN Built(NoteOff(channel, args[1], args[2]))
            ELSE Raised(ValueError)
      [] variant = "ControlChange" ->
            IF ValidDataValue(args[2]) /\ 0 <= args[1] /\ args[1] <= 127
            THEN Built(ControlChange(channel, args[1], args[2]))
            ELSE Raised(ValueError)
      [] variant = "ProgramChange" ->
            IF ValidDataValue(args[1])
            THEN Built(ProgramChange(channel, args[1]))
            ELSE Raised(ValueError)
      [] variant = "PitchBend" ->
            IF ValidPitchBendValue(args[1])
            THEN Built(PitchBend(channel, args[1]))
            ELSE Raised(ValueError)

\* to_bytes(): bytes(self.to_list()); every element is in 0..255 for a message
\* whose values passed validation
to_bytes(m) == to_list(m)

Construct ==
    /\ op = "init"
    /\ \E variant \in Variants, channel \in Channels :
         \E args \in Arguments(variant, channel) :
            LET r == NewMessage(variant, channel, args)
            IN  /\ given' = [variant |-> variant, channel |-> channel,
                             fields |-> args]
                /\ message' = r.message
                /\ err' = r.error
                /\ op' = "construct"
                /\ UNCHANGED <<gens, buffer, running_status, stream, yielded, data, out,
                               prev, wire, text>>

\* list(Parser().feed(message.to_bytes()))
SendToFreshParser ==
    /\ op = "construct"
    /\ err = NoError
    /\ LET bytes == to_bytes(message)
           r == feed(NewParser.buffer, NewParser.running_status, bytes)
       IN  /\ wire' = bytes
           /\ buffer' = r.buffer
           /\ running_status' = r.running_status
           /\ stream' = bytes
           /\ yielded' = r.out
           /\ op' = "send"
           /\ data' = bytes
           /\ out' = r.out
           /\ err' = r.err
           /\ prev' = NewParser
           /\ UNCHANGED <<given, message, text, gens>>

NextMessage == Construct \/ SendToFreshParser

SpecMessage == Init /\ [][NextMessage]_vars

(***************************************************************************)
(* picomidi/message/sysex/roland.py: RolandSysExMessage, a record of its   *)
(* six dataclass fields.  Its calls return [error, text, message].         *)
(***************************************************************************)
ROLAND_ID == 65                 \* 0x41
SYSEX_START == 240              \* Midi.SYSEX.START
SYSEX_END == 247                \* Midi.SYSEX.END
MIN_LENGTH == 13                \* from_bytes: if len(data) < 13

RolandRaised(t) == [error |-> ValueError, text |-> t, message |-> NoMessage]

RolandBuilt(m) == [error |-> NoError, text |-> "", message |-> m]

\* safe_validate_byte, for an int
safe_validate_byte(byte) == 0 <= byte /\ byte <= 127

\* any(not safe_validate_byte(byte) for byte in bytes)
AnyInvalid(bytes) == \E i \in 1..Len(bytes) : ~safe_validate_byte(bytes[i])

\* 0x10 <= device_id_int <= 0x1F or device_id_int == 0x7F
ValidDeviceIdUpTo7F(device_id) == 16 <= device_id /\ device_id <= 127

ValidDeviceId(device_id) ==
    (16 <= device_id /\ device_id <= 31) \/ device_id = 127

\* the dataclass __init__ followed by __post_init__, for integer fields
RolandSysExMessage(manufacturer_id, device_id, model_id, command, address, frame_data) ==
    IF manufacturer_id # ROLAND_ID
    THEN RolandRaised("Roland manufacturer ID must be 0x41")
    ELSE IF ~ValidDeviceId(device_id)
    THEN RolandRaised("Device ID must be 0x10-0x1F or 0x7F")
    ELSE IF Len(model_id) # 4
    THEN RolandRaised("Model ID must be exactly 4 bytes")
    ELSE IF AnyInvalid(model_id)
    THEN RolandRaised("Model ID bytes must be 0-127 (7-bit safe)")
    ELSE IF Len(address) # 4
    THEN RolandRaised("Address must be exactly 4 bytes")
    ELSE IF AnyInvalid(address)
    THEN RolandRaised("Address bytes must be 0-127 (7-bit safe)")
    ELSE IF AnyInvalid(frame_data)
    THEN RolandRaised("Data bytes must be 0-127 (7-bit safe)")
    ELSE IF ~(0 <= command /\ command <= 127)
    THEN RolandRaised("Command must be 0-127")
    ELSE RolandBuilt([manufacturer_id |-> manufacturer_id,
                      device_id |-> device_id,
                      model_id |-> model_id,
                      command |-> command,
                      address |-> address,
                      data |-> frame_data])

\* Python's sum()
RECURSIVE sum(_)
sum(bytes) == IF bytes = <<>> THEN 0 ELSE bytes[1] + sum(Tail(bytes))

\* picomidi/sysex/conversion.py
calculate_checksum_unmasked(bytes) == 128 - BitAnd(sum(bytes), LOW_7_BITS)

calculate_checksum(bytes) ==
    BitAnd(128 - BitAnd(sum(bytes), LOW_7_BITS), LOW_7_BITS)

\* RolandSysExMessage.calculate_checksum
message_checksum(m) == calculate_checksum(m.address \o m.data)

\* RolandSysExMessage.to_list
roland_to_list_no_checksum(m) ==
    <<SYSEX_START, m.manufacturer_id, m.device_id>>
        \o m.model_id \o <<m.command>> \o m.address \o m.data
        \o <<SYSEX_END>>

roland_to_list_address_first(m) ==
    <<SYSEX_START, m.manufacturer_id, m.device_id>>
        \o m.address \o <<m.command>> \o m.model_id \o m.data
        \o <<message_checksum(m), SYSEX_END>>

roland_to_list(m) ==
    <<SYSEX_START, m.manufacturer_id, m.device_id>>
        \o m.model_id \o <<m.command>> \o m.address \o m.data
        \o <<message_checksum(m), SYSEX_END>>

\* RolandSysExMessage.to_bytes: bytes(self.to_list()); every element of a
\* validated message is in 0..255
roland_to_bytes(m) == roland_to_list(m)

\* Python's s[lo:hi]: a negative index counts from the end, and both are
\* clamped to the sequence
PyIndex(n, i) ==
    IF i < 0 THEN (IF n + i < 0 THEN 0 ELSE n + i)
    ELSE (IF i > n THEN n ELSE i)

Slice(s, lo, hi) == SubSeq(s, PyIndex(Len(s), lo) + 1, PyIndex(Len(s), hi))

\* from_bytes: the fields read from the input
parsed_model_id(bytes) == Slice(bytes, 3, 7)

parsed_address_after_model(bytes) == Slice(bytes, 7, 11)

parsed_address(bytes) == Slice(bytes, 8, 12)

parsed_data_to_checksum(bytes) == Slice(bytes, 12, -1)

parsed_data(bytes) == Slice(bytes, 12, -2)

checksum_byte(bytes) == bytes[Len(bytes) - 1]

from_bytes(bytes) ==
    IF Len(bytes) < MIN_LENGTH
    THEN RolandRaised("Message too short")
    ELSE IF bytes[1] # SYSEX_START
    THEN RolandRaised("Invalid start byte")
    ELSE IF bytes[Len(bytes)] # SYSEX_END
    THEN RolandRaised("Invalid end byte")
    ELSE IF bytes[2] # ROLAND_ID
    THEN RolandRaised("Not a Roland message")
    ELSE LET r == RolandSysExMessage(bytes[2], bytes[3], parsed_model_id(bytes),
                                     bytes[8], parsed_address(bytes),
                                     parsed_data(bytes))
         IN  IF r.error # NoError
             THEN r
             ELSE IF message_checksum(r.message) # checksum_byte(bytes)
             THEN RolandRaised("Checksum mismatch")
             ELSE r

(***************************************************************************)
(* A caller that builds one RolandSysExMessage, serializes it, and parses  *)
(* what a receiver gets: the bytes as sent or damaged on the way.          *)
(***************************************************************************)
\* the longest data list of the messages whose address and data are varied
MaxData == 2

\* the example message of the tests (test_roland_sysex_message.py:23-29)
ExampleArguments ==
    [manufacturer_id |-> 65, device_id |-> 16, model_id |-> <<0, 0, 0, 14>>,
     command |-> 18, address |-> <<24, 0, 0, 16>>, data |-> <<127>>]

\* every field right, wrong in length or wrong in value, in every combination
ValidationArguments ==
    [manufacturer_id : {65, 66},
     device_id : {15, 16, 31, 32, 126, 127},
     model_id : {<<0, 0, 0, 14>>, <<127, 127, 127, 127>>, <<0, 0, 14>>,
                 <<0, 0, 0, 0, 14>>, <<0, 0, 0, 128>>, <<-1, 0, 0, 14>>},
     command : {-1, 0, 18, 127, 128},
     address : {<<24, 0, 0, 16>>, <<0, 0, 0, 0>>, <<24, 0, 16>>,
                <<24, 0, 0, 0, 16>>, <<24, 0, 0, 128>>},
     data : {<<>>, <<127>>, <<1, 2, 3, 4>>, <<128>>, <<0, -1>>}]

\* valid headers with the address and the data varied
PayloadArguments ==
    [manufacturer_id : {65},
     device_id : {16, 127},
     model_id : {<<0, 0, 0, 14>>},
     command : {18},
     address : [1..4 -> {0, 16, 24, 127}],
     data : Chunks({0, 1, 127}, MaxData)]

\* RolandSysExMessage(...)
NewFrame ==
    /\ op = "init"
    /\ \E a \in ValidationArguments \cup PayloadArguments \cup {ExampleArguments} :
         LET r == RolandSysExMessage(a.manufacturer_id, a.device_id, a.model_id,
                                     a.command, a.address, a.data)
         IN  /\ given' = a
             /\ message' = r.message
             /\ err' = r.error
             /\ text' = r.text
             /\ op' = "RolandSysExMessage"
             /\ UNCHANGED <<gens, buffer, running_status, stream, yielded, data, out,
                            prev, wire>>

\* message.to_bytes(), once or again
ToBytes ==
    /\ op \in {"RolandSysExMessage", "to_bytes"}
    /\ err = NoError
    /\ wire' = roland_to_bytes(message)
    /\ op' = "to_bytes"
    /\ UNCHANGED <<gens, buffer, running_status, stream, yielded, data, out, err, prev,
                   given, message, text>>

\* s with its i-th byte replaced
Replace(s, i, byte) == [s EXCEPT ![i] = byte]

\* s without its i-th byte
Remove(s, i) == SubSeq(s, 1, i - 1) \o SubSeq(s, i + 1, Len(s))

ByteProbes == {0, 64, 128, 241, 247}

\* what a receiver may get of the bytes w: all of them; the checksum byte
\* replaced; the first, second, third or last byte replaced; the checksum byte
\* lost; only the first bytes
Received(w) ==
    {w}
    \cup {Replace(w, Len(w) - 1, byte) :
             byte \in ByteProbes \cup {(w[Len(w) - 1] + 1) % 128}}
    \cup {Replace(w, i, byte) : i \in {1, 2, 3, Len(w)}, byte \in ByteProbes}
    \cup {Remove(w, Len(w) - 1)}
    \cup {SubSeq(w, 1, k) : k \in {0, 3, 12}}

\* the malformed inputs of the tests (test_roland_sysex_message.py:217, 226, 255)
ReceivedExamples ==
    { <<241, 65, 16, 0, 0, 0, 0, 0, 0, 0, 0, 0, 0>>,
      <<240, 65, 16, 0, 0, 0, 0, 0, 0, 0, 0, 0, 0, 246>>,
      <<240, 65, 16>> }

FromBytesCall(bytes) ==
    LET r == from_bytes(bytes)
    IN  /\ data' = bytes
        /\ out' = IF r.error = NoError THEN <<r.message>> ELSE <<>>
        /\ err' = r.error
        /\ text' = r.text
        /\ op' = "from_bytes"
        /\ UNCHANGED <<gens, buffer, running_status, stream, yielded, prev, given,
                       message, wire>>

\* RolandSysExMessage.from_bytes(...) of what arrived of the serialized message
FromBytes ==
    /\ op = "to_bytes"
    /\ \E bytes \in Received(wire) : FromBytesCall(bytes)

FromBytesExample ==
    /\ op = "init"
    /\ \E bytes \in ReceivedExamples : FromBytesCall(bytes)

\* what follows the frame on the wire: nothing, a Note On, a Note On short of
\* its velocity
Followers == {<<>>, <<144, 60, 64>>, <<144, 60>>}

\* list(Parser().feed(message.to_bytes() + following))
FeedFrame ==
    /\ op = "to_bytes"
    /\ \E following \in Followers :
         LET bytes == wire \o following
             r == feed(NewParser.buffer, NewParser.running_status, bytes)
         IN  /\ buffer' = r.buffer
             /\ running_status' = r.running_status
             /\ stream' = bytes
             /\ yielded' = r.out
             /\ data' = bytes
             /\ out' = r.out
             /\ err' = r.err
    /\ op' = "feed"
    /\ prev' = NewParser
    /\ UNCHANGED <<built, gens>>

NextRoland == NewFrame \/ ToBytes \/ FromBytes \/ FromBytesExample \/ FeedFrame

SpecRoland == Init /\ [][NextRoland]_vars

(***************************************************************************)
(* utils/conversion.py: the signed and unsigned 14-bit conversions          *)
(***************************************************************************)
\* if value < 0: return 0x4000 + value; return value
signed_to_unsigned_14bit(value) ==
    IF value < 0 THEN 16384 + value ELSE value

\* if value >= 0x4000: return value - 0x4000; return value
unsigned_to_signed_14bit(value) ==
    IF value >= 16384 THEN value - 16384 ELSE value

\* the docstrings' ranges: signed (-8192 to 8191), unsigned (0-16383)
Signed14Bit == -8192..8191

Unsigned14Bit == 0..16383

\* the unsigned arguments tried directly: the range and the first values past it
UnsignedArguments == 0..16385

\* signed_to_unsigned_14bit(value)
SignedToUnsigned ==
    /\ op = "init"
    /\ \E value \in Signed14Bit :
         /\ given' = value
         /\ data' = <<value>>
         /\ out' = <<signed_to_unsigned_14bit(value)>>
         /\ op' = "signed_to_unsigned_14bit"
    /\ UNCHANGED <<gens, buffer, running_status, stream, yielded, err, prev, message,
                   wire, text>>

\* unsigned_to_signed_14bit(signed_to_unsigned_14bit(value))
UnsignedOfSigned ==
    /\ op = "signed_to_unsigned_14bit"
    /\ data' = out
    /\ out' = <<unsigned_to_signed_14bit(out[1])>>
    /\ op' = "round_trip"
    /\ UNCHANGED <<gens, buffer, running_status, stream, yielded, err, prev, given,
                   message, wire, text>>

\* unsigned_to_signed_14bit(value)
UnsignedToSigned ==
    /\ op = "init"
    /\ \E value \in UnsignedArguments :
         /\ data' = <<value>>
         /\ out' = <<unsigned_to_signed_14bit(value)>>
         /\ op' = "unsigned_to_signed_14bit"
    /\ UNCHANGED <<gens, buffer, running_status, stream, yielded, err, prev, given,
                   message, wire, text>>

NextConversion == SignedToUnsigned \/ UnsignedOfSigned \/ UnsignedToSigned

SpecConversion == Init /\ [][NextConversion]_vars

(***************************************************************************)
(* The parser with feed's generators iterated by hand: a caller may call   *)
(* feed without iterating, take one message and stop, close a generator,   *)
(* reset the parser between two next(), and keep several generators of the *)
(* one parser.  Here stream is every byte passed to feed since the last    *)
(* reset, in the order of the calls, `data` is the argument of the         *)
(* generator the last step was about, and `out` is the item that step      *)
(* yielded, if it yielded one.                                             *)
(***************************************************************************)
MaxGenerators == 2

MaxLazyBytes == 4

\* 3C and Program Change ch 3: C3 3C is a message, C3 C3 one that cannot be built
LazyAlphabet == {60, 195}

\* the bytes passed to feed so far, over every generator
PassedBytes == sum([i \in 1..Len(gens) |-> Len(gens[i].data)])

\* g = parser.feed(d)
CallFeed ==
    /\ Len(gens) < MaxGenerators
    /\ \E d \in Chunks(LazyAlphabet, MaxLazyBytes - PassedBytes) :
         /\ gens' = Append(gens, NewGenerator(d))
         /\ stream' = stream \o d
         /\ data' = d
    /\ op' = "call"
    /\ out' = <<>>
    /\ err' = NoError
    /\ prev' = [buffer |-> buffer, running_status |-> running_status]
    /\ UNCHANGED <<buffer, running_status, yielded, built>>

\* next(g), with the exception caught by the caller if one is raised
NextItem ==
    \E i \in 1..Len(gens) :
        /\ gens[i].state # "done"
        /\ LET g == gens[i]
               r == resume(g, buffer, running_status)
           IN  /\ buffer' = r.buffer
               /\ running_status' = r.running_status
               /\ gens' = [gens EXCEPT ![i] =
                             IF r.kind = "yield"
                             THEN Suspended(g, Len(r.item.bytes), r.item.bytes[1])
                             ELSE Finished(g)]
               /\ yielded' = IF r.kind = "yield" THEN Append(yielded, r.item)
                             ELSE yielded
               /\ out' = IF r.kind = "yield" THEN <<r.item>> ELSE <<>>
               /\ err' = r.error
               /\ op' = IF g.state = "created" THEN "start" ELSE "resume"
               /\ data' = g.data
        /\ prev' = [buffer |-> buffer, running_status |-> running_status]
        /\ UNCHANGED <<stream, built>>

\* g.close(), or the generator dropped by the caller: nothing of feed runs
Close ==
    \E i \in 1..Len(gens) :
        /\ gens[i].state # "done"
        /\ gens' = [gens EXCEPT ![i] = Finished(gens[i])]
        /\ op' = "close"
        /\ data' = gens[i].data
        /\ out' = <<>>
        /\ err' = NoError
        /\ prev' = [buffer |-> buffer, running_status |-> running_status]
        /\ UNCHANGED <<buffer, running_status, stream, yielded, built>>

NextLazy == CallFeed \/ NextItem \/ Close \/ Reset

SpecLazy == Init /\ [][NextLazy]_vars

(***************************************************************************)
(* Vocabulary of the properties.  These are stated on bytes alone, apart   *)
(* from the parser's operators.                                            *)
(***************************************************************************)
\* the buffer the loop of the last feed started from
Fed == prev.buffer \o data

\* the bytes a channel-voice message takes on the wire, status byte included
WireLength(status) == IF 192 <= status /\ status <= 223 THEN 2 ELSE 3

IsChannelVoiceStatus(byte) == 128 <= byte /\ byte <= 239

IsDataByte(byte) == 0 <= byte /\ byte <= 127

Has(s, byte) == \E i \in 1..Len(s) : s[i] = byte

\* the position of the first occurrence of byte in s
First(s, byte) == CHOOSE i \in 1..Len(s) : s[i] = byte /\ \A j \in 1..(i - 1) : s[j] # byte

\* s from position i on
From(s, i) == SubSeq(s, i, Len(s))

\* s starts with an incomplete message
IncompleteMessage(s) ==
    /\ s # <<>>
    /\ \/ IsChannelVoiceStatus(s[1]) /\ Len(s) < WireLength(s[1])
       \/ s[1] = 240 /\ ~Has(s, 247)

\* s starts with a complete message with status byte in statuses and 7-bit data
StartsWithMessage(s, statuses) ==
    /\ s # <<>>
    /\ s[1] \in statuses
    /\ Len(s) >= WireLength(s[1])
    /\ \A i \in 2..WireLength(s[1]) : IsDataByte(s[i])

\* the yielded item for a Note On
NoteOnItem(channel, note, velocity) ==
    [message |-> NoteOn(channel, note, velocity),
     bytes |-> <<144 + channel, note, velocity>>]

(***************************************************************************)
(* C1.  Feeding a stream in chunks gives what feeding it whole gives: for  *)
(* every stream which a fresh parser accepts whole without raising, after  *)
(* the stream has been fed in any chunks the messages yielded so far, the  *)
(* buffer and the running status are those of the single feed, and no      *)
(* chunk's feed raised.                                                    *)
(***************************************************************************)
C1_ChunkingEquivalence ==
    LET whole == feed(NewParser.buffer, NewParser.running_status, stream)
    IN  whole.err = NoError =>
            /\ yielded = whole.out
            /\ buffer = whole.buffer
            /\ running_status = whole.running_status
            /\ err = NoError

\* two messages, the first split across two feeds
C1_Witness ==
    /\ stream = <<144, 60, 60, 195, 60>>
    /\ data = <<60, 195, 60>>
    /\ prev.buffer = <<144, 60>>
    /\ Len(yielded) = 2
    /\ buffer = <<>>

(***************************************************************************)
(* C2.  While the buffer starts with an incomplete message a feed yields   *)
(* nothing, raises nothing and removes nothing; the feed that delivers the *)
(* last byte of a well-formed message yields it; 90 3C 40 fed one byte a   *)
(* feed yields one NoteOn, on the third feed.                              *)
(***************************************************************************)
C2_IncompleteDefers ==
    op = "feed" =>
        /\ IncompleteMessage(Fed) =>
               out = <<>> /\ err = NoError /\ buffer = Fed
        /\ ( /\ IncompleteMessage(prev.buffer)
             /\ StartsWithMessage(Fed, (128..239) \ (208..223)) ) =>
               /\ out # <<>>
               /\ out[1].bytes = SubSeq(Fed, 1, WireLength(Fed[1]))
        /\ (prev.buffer = <<144, 60>> /\ data = <<64>>) =>
               /\ out = <<NoteOnItem(0, 60, 64)>>
               /\ buffer = <<>>
               /\ err = NoError

\* the third of three one-byte feeds, the only one to yield
C2_Witness ==
    /\ op = "feed"
    /\ stream = <<144, 60, 64>>
    /\ prev.buffer = <<144, 60>>
    /\ data = <<64>>
    /\ yielded = <<NoteOnItem(0, 60, 64)>>
    /\ out = yielded

(***************************************************************************)
(* C3.  When the first buffered byte is a System Realtime status (F8..FF)  *)
(* the feed raises NotImplementedError and that one byte is consumed, so   *)
(* that the buffer afterwards starts with the byte that followed it.       *)
(***************************************************************************)
C3_RealtimeByteConsumed ==
    (op = "feed" /\ Fed # <<>> /\ 248 <= Fed[1] /\ Fed[1] <= 255) =>
        /\ err = NotImplementedError
        /\ buffer = Tail(Fed)

(***************************************************************************)
(* C4.  When the buffer starts with F0 and holds an F7, the feed removes   *)
(* the bytes from the F0 through the first F7, yields nothing for them and *)
(* leaves the running status as it was: the feed ends as a feed of the     *)
(* bytes after that F7 alone would.  A Note On 90 3C 40 right after the    *)
(* frame is the next message yielded, by the same feed.                    *)
(***************************************************************************)
C4_SysExSpanRemoved ==
    (op = "feed" /\ Fed # <<>> /\ Fed[1] = 240 /\ Has(Fed, 247)) =>
        LET rest == From(Fed, First(Fed, 247) + 1)
            alone == feed(<<>>, prev.running_status, rest)
        IN  /\ out = alone.out
            /\ buffer = alone.buffer
            /\ running_status = alone.running_status
            /\ err = alone.err
            /\ rest = <<>> =>
                   /\ out = <<>>
                   /\ buffer = <<>>
                   /\ running_status = prev.running_status
            /\ rest = <<144, 60, 64>> =>
                   /\ out = <<NoteOnItem(0, 60, 64)>>
                   /\ buffer = <<>>

\* the Roland frame followed by a Note On, fed whole
C4_Witness ==
    /\ op = "feed"
    /\ data = SysExThenNoteOn
    /\ out = <<NoteOnItem(0, 60, 64)>>
    /\ buffer = <<>>
    /\ err = NoError

(***************************************************************************)
(* C5.  The complete messages s is made of, back to back, each with a      *)
(* status byte in statuses and 7-bit data bytes; NotMessages when s is not *)
(* made of such messages.                                                  *)
(***************************************************************************)
NotMessages == << <<>> >>

RECURSIVE Messages(_, _)
Messages(s, statuses) ==
    IF s = <<>> THEN <<>>
    ELSE IF ~StartsWithMessage(s, statuses) THEN NotMessages
    ELSE LET rest == Messages(From(s, WireLength(s[1]) + 1), statuses)
         IN  IF rest = NotMessages THEN NotMessages
             ELSE <<SubSeq(s, 1, WireLength(s[1]))>> \o rest

\* one feed yields one item for each message of ms, in order, and nothing else
YieldsEach(ms) ==
    /\ err = NoError
    /\ buffer = <<>>
    /\ Len(out) = Len(ms)
    /\ \A i \in 1..Len(ms) : out[i].bytes = ms[i]

(***************************************************************************)
(* C5 as claimed.  When the buffer holds several complete channel-voice    *)
(* messages (status 80..EF) back to back, one feed yields all of them, in  *)
(* arrival order, none skipped and none twice.                             *)
(***************************************************************************)
C5_AllChannelVoiceYielded ==
    op = "feed" =>
        LET ms == Messages(Fed, 128..239)
        IN  (ms # NotMessages /\ Len(ms) >= 2) => YieldsEach(ms)

(***************************************************************************)
(* C5 as amended.  The same for the messages the parser has a decoder for: *)
(* every channel-voice status but Channel Aftertouch (D0..DF).             *)
(***************************************************************************)
C5_DecodableYielded ==
    op = "feed" =>
        LET ms == Messages(Fed, (128..239) \ (208..223))
        IN  (ms # NotMessages /\ Len(ms) >= 2) => YieldsEach(ms)

\* a Program Change and a Note On delivered by one feed
C5_Witness ==
    /\ op = "feed"
    /\ data = <<195, 60, 144, 60, 60>>
    /\ prev.buffer = <<>>
    /\ Len(out) = 2
    /\ out[1].message = ProgramChange(3, 60)
    /\ out[2].message = NoteOn(0, 60, 60)

(***************************************************************************)
(* C6.  Running status: after a Note On has been decoded, the data bytes   *)
(* of a further Note On sent without its status byte are decoded and       *)
(* yielded as a Note On on the remembered channel (90 3C 40, then 3E 40).  *)
(***************************************************************************)
C6_RunningStatusDecoded ==
    /\ ( /\ op = "feed"
         /\ prev.buffer = <<>>
         /\ 144 <= prev.running_status /\ prev.running_status <= 159
         /\ Len(data) = 2 /\ IsDataByte(data[1]) /\ IsDataByte(data[2]) ) =>
           /\ Len(out) = 1
           /\ out[1].message = NoteOn(prev.running_status - 144, data[1], data[2])
    /\ (op = "feed" /\ prev.buffer = <<>> /\ data = NoteOnThenDataBytes) =>
           /\ Len(out) = 2
           /\ out[1].message = NoteOn(0, 60, 64)
           /\ out[2].message = NoteOn(0, 62, 64)

(***************************************************************************)
(* C7.  What a feed yields and consumes does not depend on the running     *)
(* status: started from the same buffer with any other running status it   *)
(* yields the same items, raises the same and leaves the same buffer.  A   *)
(* leading byte that is no recognized status (00..7F, F1..F7) is dropped   *)
(* alone, with nothing yielded for it, whatever the running status: the    *)
(* feed ends as a feed of the bytes after it would, and every item yielded *)
(* starts at a channel-voice status byte.                                  *)
(***************************************************************************)
OtherStatuses == {None, 144, 195, 229}

DecodedStatuses == (128..159) \cup (176..207) \cup (224..239)

VariantLength(variant) == IF variant = "ProgramChange" THEN 2 ELSE 3

C8_RunningStatusIsLastDecoded ==
    /\ running_status = IF yielded = <<>> THEN None
                        ELSE yielded[Len(yielded)].bytes[1]
    /\ running_status = None \/ IsChannelVoiceStatus(running_status)
    /\ \A i \in 1..Len(yielded) :
           Len(yielded[i].bytes) = VariantLength(yielded[i].message.variant)
    /\ (op = "feed" /\ StartsWithMessage(Fed, DecodedStatuses)) =>
           LET n == WireLength(Fed[1])
               after == feed(<<>>, Fed[1], From(Fed, n + 1))
           IN  /\ out # <<>>
               /\ out[1].bytes = SubSeq(Fed, 1, n)
               /\ Tail(out) = after.out
               /\ buffer = after.buffer
               /\ running_status = after.running_status
               /\ err = after.err
    /\ (op = "feed" /\ out = <<>>) => running_status = prev.running_status

\* a Note On, then a SysEx span and a dropped byte, which leave its status recorded
C8_Witness ==
    /\ stream = <<144, 60, 64, 240, 247>>
    /\ prev = [buffer |-> <<>>, running_status |-> 144]
    /\ data = <<240, 247>>
    /\ running_status = 144
    /\ buffer = <<>>
    /\ Len(yielded) = 1

(***************************************************************************)
(* C9.  reset() leaves the buffer empty and running_status None whatever   *)
(* the state before; a second reset changes nothing; and the first feed    *)
(* after a reset yields, raises and leaves what the same feed to a newly   *)
(* constructed Parser does.                                                *)
(***************************************************************************)
C9_Reset ==
    [][ /\ op' = "reset" => (buffer' = <<>> /\ running_status' = None)
        /\ (op = "reset" /\ op' = "reset") =>
               (buffer' = buffer /\ running_status' = running_status)
        /\ (op = "reset" /\ op' = "feed") =>
               LET fresh == feed(NewParser.buffer, NewParser.running_status, data')
               IN  /\ out' = fresh.out
                   /\ buffer' = fresh.buffer
                   /\ running_status' = fresh.running_status
                   /\ err' = fresh.err ]_vars

\* a reset of a parser whose last feed raised, which leaves the failing bytes buffered
C9_Witness ==
    /\ op = "reset"
    /\ err = ValueError
    /\ buffer = <<>>
    /\ running_status = None
    /\ yielded = <<>>

(***************************************************************************)
(* C10.  Once the buffer starts with F0 and holds no F7, a feed without an *)
(* F7 yields nothing, raises nothing and leaves the buffer longer by the   *)
(* bytes fed, complete channel-voice messages among them included; the     *)
(* feed that brings the F7 discards everything from the F0 through that F7 *)
(* unyielded, and ends as a feed of the bytes after the F7 alone would.    *)
(***************************************************************************)
C10_PendingSysEx ==
    (op = "feed" /\ prev.buffer # <<>> /\ prev.buffer[1] = 240
        /\ ~Has(prev.buffer, 247)) =>
        IF ~Has(data, 247)
        THEN /\ out = <<>>
             /\ err = NoError
             /\ buffer = prev.buffer \o data
             /\ Len(buffer) = Len(prev.buffer) + Len(data)
             /\ running_status = prev.running_status
        ELSE LET rest == From(data, First(data, 247) + 1)
                 alone == feed(<<>>, prev.running_status, rest)
             IN  /\ out = alone.out
                 /\ buffer = alone.buffer
                 /\ err = alone.err
                 /\ Len(buffer) <= Len(rest)

\* a complete Note On fed behind a pending F0 stays buffered
C10_Witness ==
    /\ op = "feed"
    /\ prev.buffer = <<240>>
    /\ data = <<144, 60, 64, 60>>
    /\ out = <<>>
    /\ buffer = <<240, 144, 60, 64, 60>>
    /\ Len(buffer) = MaxStream

(***************************************************************************)
(* C11  For every channel 0-15 and every 7-bit field value, a NoteOn,      *)
(* NoteOff, ControlChange or ProgramChange serialized with to_bytes and    *)
(* fed to a fresh Parser yields exactly one message, of the same variant   *)
(* with the same channel and the same field values, and leaves the buffer  *)
(* empty.                                                                  *)
(***************************************************************************)
NoteAndControlVariants == {"NoteOn", "NoteOff", "ControlChange", "ProgramChange"}

\* the last call sent a message of one of these variants whose arguments
\* were all given
Sent(variants) ==
    /\ op = "send"
    /\ given.variant \in variants
    /\ \A i \in 1..Len(given.fields) : given.fields[i] # None

C11_RoundTrip ==
    Sent(NoteAndControlVariants) =>
        /\ err = NoError
        /\ Len(out) = 1
        /\ out[1].message.variant = given.variant
        /\ out[1].message.channel = given.channel
        /\ out[1].message.fields = given.fields
        /\ buffer = <<>>

\* a Note Off with release velocity 0 on the last channel came back as sent
C11_Witness ==
    /\ Sent({"NoteOff"})
    /\ given.channel = 15
    /\ given.fields = <<127, 0>>
    /\ wire = <<143, 127, 0>>
    /\ Len(out) = 1
    /\ out[1].message = [variant |-> "NoteOff", channel |-> 15,
                          fields |-> <<127, 0>>]
    /\ buffer = <<>>

(***************************************************************************)
(* C12  Every message the Parser yields serializes, via to_list, to        *)
(* exactly the bytes the Parser consumed for it: a Poly Aftertouch message *)
(* is not yielded as a Note On or Note Off, and a Pitch Bend whose data    *)
(* bytes have the high bit set is not yielded with altered data bytes.     *)
(***************************************************************************)
C12_YieldedSerializesToConsumed ==
    \A i \in 1..Len(yielded) : to_list(yielded[i].message) = yielded[i].bytes

(***************************************************************************)
(* C13  For every v in -8192..8191, from_14bit(PitchBendValue(v).to_14bit()) *)
(* has value v, and PitchBend(channel, v) serializes to                    *)
(* [0xE0 | channel, LSB, MSB], low 7 bits first, which a fresh Parser      *)
(* decodes to a PitchBend with the same channel and the same value v.      *)
(***************************************************************************)
C13_PitchBendRoundTrip ==
    Sent({"PitchBend"}) =>
        LET v == given.fields[1]
            unsigned == v + 8192
        IN  /\ from_14bit(to_14bit(v)) = v
            /\ wire = <<224 + given.channel, unsigned % 128, unsigned \div 128>>
            /\ err = NoError
            /\ Len(out) = 1
            /\ out[1].message.variant = "PitchBend"
            /\ out[1].message.channel = given.channel
            /\ out[1].message.fields = <<v>>
            /\ buffer = <<>>

\* the lowest bend on channel 15 (EF 00 00) came back as sent
C13_Witness ==
    /\ Sent({"PitchBend"})
    /\ given.channel = 15
    /\ given.fields = <<-8192>>
    /\ wire = <<239, 0, 0>>
    /\ Len(out) = 1
    /\ out[1].message = [variant |-> "PitchBend", channel |-> 15,
                          fields |-> <<-8192>>]

(***************************************************************************)
(* C14  For every frame that construction accepts,                         *)
(* RolandSysExMessage.from_bytes(frame.to_bytes()) succeeds and returns a  *)
(* frame with identical device_id, model_id, command, address and data.    *)
(***************************************************************************)
\* the last call parsed the serialized message as it was sent
ParsedAsSent == op = "from_bytes" /\ data = wire

C14_SysExRoundTrip ==
    ParsedAsSent =>
        /\ err = NoError
        /\ Len(out) = 1
        /\ out[1].device_id = given.device_id
        /\ out[1].model_id = given.model_id
        /\ out[1].command = given.command
        /\ out[1].address = given.address
        /\ out[1].data = given.data

\* a message with two data bytes, sent to every device, came back as built
C14_Witness ==
    /\ ParsedAsSent
    /\ given.device_id = 127
    /\ given.address = <<127, 127, 127, 127>>
    /\ given.data = <<1, 127>>
    /\ Len(out) = 1
    /\ out[1].address = <<127, 127, 127, 127>>
    /\ out[1].data = <<1, 127>>

(***************************************************************************)
(* C15  For every 4-byte address and every data list of 7-bit bytes,       *)
(* calculate_checksum() is in 0..127, (sum(address + data) + checksum)     *)
(* mod 128 = 0, and it is the value that to_list() places in the           *)
(* second-to-last position.                                                *)
(***************************************************************************)
RECURSIVE Total(_, _)
Total(s, n) == IF n = 0 THEN 0 ELSE s[n] + Total(s, n - 1)

\* the sum of the address and data bytes of a message
PayloadTotal(m) == Total(m.address, Len(m.address)) + Total(m.data, Len(m.data))

C15_Checksum ==
    op = "to_bytes" =>
        LET checksum == message_checksum(message)
        IN  /\ checksum \in 0..127
            /\ (PayloadTotal(message) + checksum) % 128 = 0
            /\ wire[Len(wire) - 1] = checksum

\* a payload whose sum is a multiple of 128 (0 + 0 + 0 + 127 + 1) has checksum 0
C15_Witness ==
    /\ op = "to_bytes"
    /\ message.address = <<0, 0, 0, 127>>
    /\ message.data = <<1>>
    /\ wire[Len(wire) - 1] = 0

(***************************************************************************)
(* C16  Replacing the checksum byte (the second-to-last byte) of a valid   *)
(* serialized frame with any other value makes from_bytes fail with a      *)
(* checksum-mismatch error, and that failure is of a kind distinct from    *)
(* the structural format failures (ChecksumError as opposed to             *)
(* FormatError).                                                           *)
(***************************************************************************)
\* the last call parsed the serialized message with only its checksum byte
\* changed
ChecksumReplaced ==
    /\ op = "from_bytes"
    /\ Len(data) = Len(wire)
    /\ \A i \in 1..Len(data) : (data[i] # wire[i]) <=> (i = Len(data) - 1)

\* the exception class of a structural failure: what an empty input raises
FormatFailure == from_bytes(<<>>).error

C16_ChecksumFailureIsDistinct ==
    ChecksumReplaced =>
        /\ err # NoError
        /\ text = "Checksum mismatch"
        /\ err # FormatFailure

(***************************************************************************)
(* C17  from_bytes fails when the input is shorter than 13 bytes, when its *)
(* first byte is not 0xF0, when its last byte is not 0xF7, or when byte 1  *)
(* is not 0x41; whenever it succeeds, the returned frame has device_id =   *)
(* byte[2], model_id = bytes[3:7], command = byte[7], address =            *)
(* bytes[8:12] and data = bytes[12:-2], and the checksum computed over     *)
(* that parsed address and data equals byte[-2].                           *)
(***************************************************************************)
\* byte[i] of the input, counting from 0 as the claim does
Byte(i) == data[i + 1]

C17_FromBytes ==
    op = "from_bytes" =>
        /\ (\/ Len(data) < 13
            \/ Byte(0) # 240
            \/ Byte(Len(data) - 1) # 247
            \/ Byte(1) # 65) => (err # NoError /\ out = <<>>)
        /\ err = NoError =>
            /\ Len(out) = 1
            /\ out[1].device_id = Byte(2)
            /\ out[1].model_id = <<Byte(3), Byte(4), Byte(5), Byte(6)>>
            /\ out[1].command = Byte(7)
            /\ out[1].address = <<Byte(8), Byte(9), Byte(10), Byte(11)>>
            /\ Len(out[1].data) = (IF Len(data) < 14 THEN 0 ELSE Len(data) - 14)
            /\ \A j \in 1..Len(out[1].data) : out[1].data[j] = Byte(11 + j)
            /\ (PayloadTotal(out[1]) + Byte(Len(data) - 2)) % 128 = 0
            /\ Byte(Len(data) - 2) \in 0..127

\* an input of exactly 13 bytes was accepted: its byte 11 is both the last
\* address byte and the checksum byte
C17_Witness ==
    /\ op = "from_bytes"
    /\ err = NoError
    /\ data = <<240, 65, 16, 0, 0, 0, 14, 18, 0, 0, 0, 0, 247>>
    /\ out[1].address = <<0, 0, 0, 0>>
    /\ out[1].data = <<>>

(***************************************************************************)
(* C18  Constructing a RolandSysExMessage from integer fields fails if and *)
(* only if manufacturer_id is not 0x41, or device_id is outside            *)
(* {0x10..0x1F, 0x7F}, or model_id or address is not exactly 4 bytes long, *)
(* or any byte of model_id, address or data is outside 0-127, or command   *)
(* is outside 0-127; otherwise construction succeeds and the fields are    *)
(* stored as given.                                                        *)
(***************************************************************************)
SevenBit(s) == \A i \in 1..Len(s) : s[i] \in 0..127

C18_ConstructionFails ==
    op = "RolandSysExMessage" =>
        /\ (err # NoError) <=>
              \/ given.manufacturer_id # 65
              \/ given.device_id \notin (16..31) \cup {127}
              \/ Len(given.model_id) # 4
              \/ Len(given.address) # 4
              \/ ~SevenBit(given.model_id)
              \/ ~SevenBit(given.address)
              \/ ~SevenBit(given.data)
              \/ given.command \notin 0..127
        /\ err = NoError => message = given
        /\ err # NoError => err = ValueError

\* a message refused for one data byte alone
C18_Witness ==
    /\ op = "RolandSysExMessage"
    /\ given = [manufacturer_id |-> 65, device_id |-> 31,
                model_id |-> <<127, 127, 127, 127>>, command |-> 127,
                address |-> <<24, 0, 0, 16>>, data |-> <<128>>]
    /\ err = ValueError
    /\ text = "Data bytes must be 0-127 (7-bit safe)"

(***************************************************************************)
(* C19  to_list()/to_bytes() of a valid frame is, in order: 0xF0, 0x41,    *)
(* device_id, the 4 model_id bytes, command, the 4 address bytes, the data *)
(* bytes (starting at index 12), the checksum, 0xF7; serializing the same  *)
(* frame twice gives the same bytes.                                       *)
(***************************************************************************)
\* index i of the serialized bytes, counting from 0 as the claim does
At(i) == wire[i + 1]

C19_Layout ==
    op = "to_bytes" =>
        /\ At(0) = 240
        /\ At(1) = 65
        /\ At(2) = message.device_id
        /\ \A i \in 0..3 : At(3 + i) = message.model_id[i + 1]
        /\ At(7) = message.command
        /\ \A i \in 0..3 : At(8 + i) = message.address[i + 1]
        /\ \A i \in 0..(Len(message.data) - 1) : At(12 + i) = message.data[i + 1]
        /\ At(12 + Len(message.data)) = (128 - (PayloadTotal(message) % 128)) % 128
        /\ At(13 + Len(message.data)) = 247
        /\ message = given

\* the four data bytes of test_multiple_data_bytes sit at indices 12 to 15
C19_Witness ==
    /\ op = "to_bytes"
    /\ message.data = <<1, 2, 3, 4>>
    /\ message.address = <<0, 0, 0, 0>>
    /\ message.model_id = <<127, 127, 127, 127>>
    /\ SubSeq(wire, 13, 16) = <<1, 2, 3, 4>>
    /\ SubSeq(wire, 17, 18) = <<118, 247>>

(***************************************************************************)
(* C20  The serialized frame has total length 13 + len(data); the frame    *)
(* with device_id 0x10, model_id [0,0,0,0x0E], command 0x12, address       *)
(* [0x18,0,0,0x10] and data [0x7F] serializes to a 14-byte frame.          *)
(***************************************************************************)
C20_LengthIs13PlusData ==
    op = "to_bytes" =>
        /\ Len(wire) = 13 + Len(message.data)
        /\ given = ExampleArguments => Len(wire) = 14

(***************************************************************************)
(* C20 as amended.  The serialized frame has total length 14 + len(data):  *)
(* 12 bytes before the data, the checksum and 0xF7 after it; the example   *)
(* frame serializes to 15 bytes.                                           *)
(***************************************************************************)
C20_LengthIs14PlusData ==
    op = "to_bytes" =>
        /\ Len(wire) = 14 + Len(message.data)
        /\ given = ExampleArguments => Len(wire) = 15

\* the example frame: F0 41 10 00 00 00 0E 12 18 00 00 10 7F 59 F7
C20_Witness ==
    /\ op = "to_bytes"
    /\ given = ExampleArguments
    /\ wire = <<240, 65, 16, 0, 0, 0, 14, 18, 24, 0, 0, 16, 127, 89, 247>>

(***************************************************************************)
(* C21  After a drained feed that did not raise, a feed of zero bytes      *)
(* yields no message and leaves the buffer and running_status unchanged.   *)
(***************************************************************************)
C21_EmptyFeed ==
    [][(op = "feed" /\ err = NoError /\ op' = "feed" /\ data' = <<>>) =>
          /\ out' = <<>>
          /\ err' = NoError
          /\ yielded' = yielded
          /\ buffer' = buffer
          /\ running_status' = running_status]_vars

\* a feed of zero bytes found the first two bytes of a Note On waiting, after
\* a Program Change had been decoded, and left them waiting
C21_Witness ==
    /\ op = "feed"
    /\ data = <<>>
    /\ err = NoError
    /\ out = <<>>
    /\ prev = [buffer |-> <<144, 60>>, running_status |-> 195]
    /\ buffer = <<144, 60>>
    /\ running_status = 195

(***************************************************************************)
(* C22  Every channel-voice message serializes to                          *)
(* [type | channel, data1, (data2)] with the status byte's low nibble      *)
(* equal to the channel and every data byte in 0-127: NoteOff 0x80, NoteOn *)
(* 0x90, ControlChange 0xB0 and PitchBend 0xE0 carry two data bytes,       *)
(* ProgramChange 0xC0 carries one; ControlChange(channel 0, controller 7,  *)
(* value 100) serializes to [0xB0, 0x07, 0x64].                            *)
(***************************************************************************)
TypeNibble(variant) ==
    CASE variant = "NoteOff" -> 8
      [] variant = "NoteOn" -> 9
      [] variant = "ControlChange" -> 11
      [] variant = "ProgramChange" -> 12
      [] variant = "PitchBend" -> 14

C22_WireFormat ==
    op = "send" =>
        /\ wire[1] \div 16 = TypeNibble(given.variant)
        /\ wire[1] % 16 = given.channel
        /\ Len(wire) = (IF given.variant = "ProgramChange" THEN 2 ELSE 3)
        /\ \A i \in 2..Len(wire) : wire[i] \in 0..127
        /\ (given.variant \in NoteAndControlVariants /\ None \notin
               {given.fields[i] : i \in 1..Len(given.fields)}) =>
              SubSeq(wire, 2, Len(wire)) = given.fields
        /\ (given = [variant |-> "ControlChange", channel |-> 0,
                     fields |-> <<7, 100>>]) => wire = <<176, 7, 100>>

\* the volume controller example: B0 07 64
C22_Witness ==
    /\ op = "send"
    /\ given = [variant |-> "ControlChange", channel |-> 0, fields |-> <<7, 100>>]
    /\ wire = <<176, 7, 100>>

(***************************************************************************)
(* C23  unsigned_to_signed_14bit is the inverse of                         *)
(* signed_to_unsigned_14bit on the signed 14-bit range: for every v in     *)
(* -8192..8191, signed_to_unsigned_14bit(v) lies in 0..16383 and           *)
(* unsigned_to_signed_14bit applied to it returns v, a value in            *)
(* -8192..8191.                                                            *)
(***************************************************************************)
C23_SignedRoundTrip ==
    /\ op = "signed_to_unsigned_14bit" => out[1] \in Unsigned14Bit
    /\ op = "round_trip" =>
          /\ data[1] \in Unsigned14Bit
          /\ out[1] = given
          /\ out[1] \in Signed14Bit

(***************************************************************************)
(* C24  Each complete message is yielded exactly once: by the time the     *)
(* caller receives a message its bytes are already consumed from the       *)
(* buffer, so a caller that takes the first message of a feed and abandons *)
(* the rest finds that the next feed does not yield it again and loses no  *)
(* later message.  Every byte passed to feed is then at most one of: still *)
(* buffered, or part of one yielded message.                               *)
(***************************************************************************)
\* the bytes of the messages yielded since the last reset
YieldedBytes == sum([i \in 1..Len(yielded) |-> Len(yielded[i].bytes)])

C24_YieldedOnce ==
    op \in {"start", "resume", "close"} =>
        YieldedBytes + Len(buffer) <= Len(stream)

(***************************************************************************)
(* C25  When feed raises on a complete message it cannot build (Channel    *)
(* Aftertouch 0xD0-0xDF with its data byte buffered, or Note On, Note Off, *)
(* Poly Aftertouch, Control Change or Program Change with a data byte of   *)
(* 0x80 or more), the messages ahead of it have been yielded and consumed  *)
(* and the failing message's bytes stay at the front of the buffer, so     *)
(* every later feed raises the same error and yields nothing until         *)
(* reset() is called.                                                      *)
(***************************************************************************)
\* s starts with a complete message of the claim's kinds that raises e
CannotBuild(s, e) ==
    /\ s # <<>>
    /\ LET type == s[1] \div 16
       IN  \/ type = 13 /\ Len(s) >= 2 /\ e = NotImplementedError
           \/ /\ type \in {8, 9, 10, 11}
              /\ Len(s) >= 3
              /\ (s[2] >= 128 \/ s[3] >= 128)
              /\ e = ValueError
           \/ type = 12 /\ Len(s) >= 2 /\ s[2] >= 128 /\ e = ValueError

\* the bytes of the messages the last feed yielded
OutBytes == sum([i \in 1..Len(out) |-> Len(out[i].bytes)])

\* the last feed raised, and not on a System Realtime byte
RaisedOnMessage ==
    /\ op = "feed"
    /\ err # NoError
    /\ ~(buffer # <<>> /\ buffer[1] >= 248)

C25_RaiseRepeats ==
    [][RaisedOnMessage =>
         /\ CannotBuild(buffer, err)
         /\ \E k \in 1..(Len(Fed) + 1) : buffer = From(Fed, k)
         /\ OutBytes + Len(buffer) <= Len(Fed)
         /\ op' = "feed" =>
               /\ err' = err
               /\ out' = <<>>
               /\ yielded' = yielded
               /\ buffer' = buffer \o data'
               /\ running_status' = running_status
         /\ op' = "reset" => buffer' = <<>>]_vars

\* C3 3C C3 90: the Program Change is yielded, C3 90 cannot be built, and the
\* feed after that raises again
C25_Witness ==
    /\ op = "feed" /\ err = ValueError /\ out = <<>>
    /\ prev.buffer = <<195, 144>>
    /\ data # <<>>
    /\ buffer = prev.buffer \o data
    /\ Len(yielded) = 1 /\ yielded[1].bytes = <<195, 60>>

(***************************************************************************)
(* C26  Every byte sequence that from_bytes accepts has length             *)
(* 14 + len(data) of the returned frame and is reproduced exactly by       *)
(* to_bytes() of that frame (serialize after parse is the identity); in    *)
(* particular no 13-byte input, which has no room for a checksum byte      *)
(* separate from the address, is accepted.                                 *)
(***************************************************************************)
C26_SerializeAfterParse ==
    (op = "from_bytes" /\ err = NoError) =>
        /\ Len(data) = 14 + Len(out[1].data)
        /\ roland_to_bytes(out[1]) = data
        /\ Len(data) # 13

(***************************************************************************)
(* C27  After any sequence of drained feeds none of which raised, the      *)
(* buffer is empty, or is a 1- or 2-byte prefix of a channel-voice message *)
(* (first byte a status 0x80-0xEF, and exactly 1 byte long when that       *)
(* status is Program Change or Channel Aftertouch), or starts with 0xF0    *)
(* and contains no 0xF7; it never starts with a data byte, a System        *)
(* Realtime byte or a byte in 0xF1-0xF7.                                   *)
(***************************************************************************)
\* s is the beginning of a channel-voice message that is not yet complete
ChannelVoicePrefix(s) ==
    /\ Len(s) \in {1, 2}
    /\ s[1] \in 128..239
    /\ (s[1] \div 16) \in {12, 13} => Len(s) = 1

\* s is the beginning of a System Exclusive frame that has not ended
OpenSysEx(s) == s # <<>> /\ s[1] = 240 /\ \A i \in 1..Len(s) : s[i] # 247

C27_BufferShape ==
    (op = "feed" /\ err = NoError) =>
        /\ \/ buffer = <<>>
           \/ ChannelVoicePrefix(buffer)
           \/ OpenSysEx(buffer)
        /\ buffer # <<>> => buffer[1] \notin (0..127) \cup (241..255)

\* 90 3C 3C C3 fed in two feeds: the Note On was yielded and the Program
\* Change waits for its program number
C27_Witness ==
    /\ op = "feed" /\ err = NoError
    /\ stream = <<144, 60, 60, 195>>
    /\ prev.buffer # <<>>
    /\ Len(yielded) = 1
    /\ buffer = <<195>>

(***************************************************************************)
(* C28  The bytes passed to feed are appended to the buffer at the moment  *)
(* feed is called, in call order, whether or not the caller iterates the   *)
(* result: feed(a) left un-iterated followed by a drained feed(b) decodes  *)
(* a followed by b, and draining the two sequences in either order never   *)
(* places b's bytes ahead of a's.                                          *)
(***************************************************************************)
C28_AppendedAtCall ==
    [][op' = "call" => buffer' = buffer \o data']_vars

(***************************************************************************)
(* C29  In every frame produced by to_bytes, 0xF0 occurs only at index 0,  *)
(* 0xF7 occurs only at the last index and every other byte is in 0-127, so *)
(* a Parser fed that frame consumes exactly the frame: nothing is yielded  *)
(* for it, the buffer is empty afterwards and no byte of a message that    *)
(* follows the frame is lost.                                              *)
(***************************************************************************)
C29_FrameIsSkipped ==
    /\ op = "to_bytes" =>
          /\ wire[1] = 240
          /\ wire[Len(wire)] = 247
          /\ \A i \in 2..(Len(wire) - 1) : wire[i] \in 0..127
    /\ op = "feed" =>
          LET following == From(data, Len(wire) + 1)
          IN  /\ data = wire \o following
              /\ err = NoError
              /\ following = <<>> => (out = <<>> /\ buffer = <<>>)
              /\ following = <<144, 60, 64>> =>
                    /\ Len(out) = 1
                    /\ out[1].bytes = following
                    /\ out[1].message = NoteOn(0, 60, 64)
                    /\ buffer = <<>>
              /\ following = <<144, 60>> => (out = <<>> /\ buffer = following)

\* a frame with a data byte and a Note On behind it
C29_Witness ==
    /\ op = "feed"
    /\ Len(wire) = 15
    /\ data = wire \o <<144, 60, 64>>
    /\ Len(out) = 1
    /\ buffer = <<>>

(***************************************************************************)
(* C30  reset() called while a feed sequence is only partly consumed still *)
(* leaves the parser cleared: when that suspended sequence is later        *)
(* resumed or discarded, the buffer remains empty and running_status       *)
(* remains None until new bytes are fed.                                   *)
(***************************************************************************)
\* the parser is as reset() left it and no byte was passed to feed since
Cleared == stream = <<>> /\ buffer = <<>> /\ running_status = None

\* some generator is suspended at a yield
PartlyConsumed == \E i \in 1..Len(gens) : gens[i].state = "suspended"

C30_ResetStaysCleared ==
    [][(Cleared /\ PartlyConsumed /\ op' \in {"resume", "close"}) =>
          (buffer' = <<>> /\ running_status' = None)]_vars

====
